---------------------------- MODULE Spec2Model ----------------------------
(***************************************************************************)
(* Productivity Launcher (src/unnamed/part_000): the persistent store      *)
(* (usePersistentState), the theme resolver (applyTheme and the theme      *)
(* cycle), the tile management of ManageTilesModal / EditTileModal, the    *)
(* search filter and the window's keydown listener.                        *)
(*                                                                         *)
(* One action is one browser event: the handler, the re-render it causes   *)
(* and the effects of that commit, in the order the hooks are declared.    *)
(*                                                                         *)
(* Representation                                                          *)
(*  - a localStorage slot is <<>> (getItem gives null) or <<text>>;        *)
(*  - the text of launcher.theme and launcher.surpriseName is a string;    *)
(*    the text of launcher.tiles is a record: [syntax |-> "invalid"] for   *)
(*    text that is no JSON, [syntax |-> "array", items |-> ...] for the    *)
(*    JSON array of tile objects, each a record over the keys it holds;    *)
(*  - an optional field of an in-memory tile (subtitle) is <<>> when it    *)
(*    is undefined or missing (the code reads it only as t.subtitle) and   *)
(*    <<s>> when it holds the string s;                                    *)
(*  - localStorage.getItem is taken to succeed; setItem may throw          *)
(*    (quota exceeded, storage disabled) at every call, independently.     *)
(***************************************************************************)
EXTENDS Integers, Sequences, FiniteSets, TLC

\* ------------------------------------------------------------------ bounds

\* Largest number of tiles the Manage modal's list may hold before "Add tile"
\* is no longer pressed.
MaxTiles == 5

\* Largest number of characters typed into one text field key by key.
MaxTyped == 2

\* ------------------------------------------------------------ input sets

\* What the user types into the Title field of the Manage modal.
TitleInputs == {"", "To Do"}

\* Outcomes of Math.random().toString(36).slice(2, 6): up to four characters
\* of [0-9a-z]; "" when Math.random() gives 0.
Suffixes == {"k3f9", "0a"}

\* Keys the user may press on the window.
Keys == {"t", "T", "/", "?", "Escape"}

\* What the user makes of the Title field of the Edit modal.
EditInputs == {"Renamed"}

\* Character keys the user may press while a text field has the focus.
TypedKeys == {"t", "T", "a", "/", "?"}

\* Values the search field may be given at once.
QueryInputs == {"", " ", "WORK", "work ", "zzz", "do", "Plan"}

\* ----------------------------------------------------------- localStorage

Absent == <<>>

Some(text) == <<text>>

\* ------------------------------------------------------------------ types

ThemeName == {"light", "dark", "grafit", "surprise"}

\* Property names every plain object inherits from Object.prototype.
ObjectPrototypeKeys ==
  {"constructor", "toString", "valueOf", "hasOwnProperty", "__proto__"}

\* obj[key] of a plain object literal: an own property, a property inherited
\* from Object.prototype, or undefined.
Lookup(obj, key) ==
  IF key \in DOMAIN obj THEN [kind |-> "own", val |-> obj[key]]
  ELSE IF key \in ObjectPrototypeKeys THEN [kind |-> "inherited"]
  ELSE [kind |-> "undefined"]

\* ---------------------------------------------------------------- theming

SURPRISE_PALETTES ==
  [ocean  |-> [bg |-> "#0b1220", fg |-> "#e7f5ff", card |-> "#0f1a2b",
               muted |-> "#8fb7e1", accent |-> "#3ba3ff", ring |-> "#79b8ff"],
   forest |-> [bg |-> "#0f1512", fg |-> "#e8ffef", card |-> "#112019",
               muted |-> "#86c19b", accent |-> "#2fd477", ring |-> "#7ce9a6"],
   sunset |-> [bg |-> "#1b1312", fg |-> "#fff0e6", card |-> "#221817",
               muted |-> "#ffb199", accent |-> "#ff7a59", ring |-> "#ffbfa8"]]

\* Object.keys(SURPRISE_PALETTES), in insertion order.
PaletteNames == <<"ocean", "forest", "sunset">>

THEMES ==
  [light  |-> [bg |-> "#f7f7fb", fg |-> "#0f1222", card |-> "#ffffff",
               muted |-> "#6b7280", accent |-> "#6366f1", ring |-> "#a5b4fc"],
   dark   |-> [bg |-> "#0c0f16", fg |-> "#e5e7eb", card |-> "#111827",
               muted |-> "#9ca3af", accent |-> "#22d3ee", ring |-> "#67e8f9"],
   grafit |-> [bg |-> "#0e0e10", fg |-> "#e8e8ea", card |-> "#151518",
               muted |-> "#9a9aa2", accent |-> "#c0c0c8", ring |-> "#d6d6de"]]

\* The inline custom properties of a fresh document: none is set.
NoInlineStyle ==
  [bg |-> "", fg |-> "", card |-> "", muted |-> "", accent |-> "", ring |-> ""]

\* setProperty(name, undefined) for each token: the property of a value that
\* is no ThemeTokens record reads undefined, which setProperty stores as text.
UndefinedTokens ==
  [bg |-> "undefined", fg |-> "undefined", card |-> "undefined",
   muted |-> "undefined", accent |-> "undefined", ring |-> "undefined"]

\* The six root.style.setProperty calls for `tokens`, the result of a lookup.
\* Reading tokens.bg of undefined throws a TypeError before anything is set.
SetTokens(style, tokens) ==
  CASE tokens.kind = "own"       -> [style |-> tokens.val, error |-> "none"]
    [] tokens.kind = "inherited" -> [style |-> UndefinedTokens, error |-> "none"]
    [] OTHER                     -> [style |-> style, error |-> "TypeError in applyTheme"]

\* localStorage.setItem("launcher.surpriseName", pick) inside applyTheme: no
\* try/catch surrounds it, so a failing write leaves applyTheme by exception.
StickyWrite(slot, pick, ok) ==
  IF ok THEN [slot |-> Some(pick), error |-> "none"]
        ELSE [slot |-> slot, error |-> "QuotaExceededError in applyTheme"]

\* savedSurprise && SURPRISE_PALETTES[savedSurprise] ? savedSurprise : random
SurprisePick(saved, rnd) ==
  IF saved # Absent /\ saved[1] # ""
     /\ Lookup(SURPRISE_PALETTES, saved[1]).kind # "undefined"
  THEN saved[1]
  ELSE PaletteNames[rnd + 1]

\* applyTheme(theme): `saved` is the launcher.surpriseName slot, `rnd` is
\* Math.floor(Math.random() * names.length), `ok` whether setItem succeeds.
\* Gives the slot and the root style afterwards and the error thrown, if any.
applyTheme(th, saved, style, rnd, ok) ==
  IF th = "surprise"
  THEN LET pick == SurprisePick(saved, rnd)
           w    == StickyWrite(saved, pick, ok)
       IN  IF w.error # "none"
           THEN [slot |-> w.slot, style |-> style, error |-> w.error]
           ELSE LET s == SetTokens(style, Lookup(SURPRISE_PALETTES, pick))
                IN  [slot |-> w.slot, style |-> s.style, error |-> s.error]
  ELSE LET s == SetTokens(style, Lookup(THEMES, th))
       IN  [slot |-> saved, style |-> s.style, error |-> s.error]

\* A cycle that skips the surprise theme.
NextThemeSkipsSurprise(prev) ==
  IF prev = "light" THEN "dark"
  ELSE IF prev = "dark" THEN "grafit"
  ELSE "light"

\* The updater of the T hotkey and of the ThemeToggle button.
NextTheme(prev) ==
  IF prev = "light" THEN "dark"
  ELSE IF prev = "dark" THEN "grafit"
  ELSE IF prev = "grafit" THEN "surprise"
  ELSE "light"


\* ------------------------------------------------------------------- JSON

Quote == "\""

Char(s, i) == SubSeq(s, i, i)

\* The string stored as it is, without JSON.stringify.
StoreWithoutStringify(s) == s

\* JSON.stringify of a string of plain characters: the string in quotes.
JSONstringifyString(s) == Quote \o s \o Quote

\* JSON.parse of the text of launcher.theme.  The texts considered are string
\* literals and texts that are no JSON at all (ThemeTexts below); a string
\* literal parses to the string between its quotes, the rest throws.
JSONparseString(raw) ==
  IF Len(raw) >= 2 /\ Char(raw, 1) = Quote /\ Char(raw, Len(raw)) = Quote
     /\ \A i \in 2..(Len(raw) - 1) : Char(raw, i) # Quote
  THEN [ok |-> TRUE, val |-> SubSeq(raw, 2, Len(raw) - 1)]
  ELSE [ok |-> FALSE, val |-> ""]

\* JSON.stringify of a tile: a key whose value is undefined is left out.
JSONstringifyTile(t) ==
  LET always == [id |-> t.id, title |-> t.title, url |-> t.url,
                 icon |-> t.icon, color |-> t.color, tags |-> t.tags]
  IN  IF t.subtitle = <<>> THEN always
      ELSE [id |-> t.id, title |-> t.title, subtitle |-> t.subtitle[1],
            url |-> t.url, icon |-> t.icon, color |-> t.color,
            tags |-> t.tags]

\* The tile JSON.parse builds from a tile object of the text: a key the
\* object lacks reads undefined.
JSONparseTile(o) ==
  [id |-> o.id, title |-> o.title,
   subtitle |-> IF "subtitle" \in DOMAIN o THEN <<o.subtitle>> ELSE <<>>,
   url |-> o.url, icon |-> o.icon, color |-> o.color, tags |-> o.tags]

JSONstringifyTiles(ts) ==
  [syntax |-> "array", items |-> [i \in 1..Len(ts) |-> JSONstringifyTile(ts[i])]]

JSONparseTiles(text) ==
  IF text.syntax = "array"
  THEN [ok |-> TRUE,
        val |-> [i \in 1..Len(text.items) |-> JSONparseTile(text.items[i])]]
  ELSE [ok |-> FALSE, val |-> <<>>]

\* ------------------------------------------------------- persistent store

\* localStorage.getItem(key) and JSON.parse(raw) of the initializer, for each
\* of the two bound keys: what raw holds, whether it is the empty string, and
\* what JSON.parse makes of it.
ReadTheme(slot) ==
  IF slot = Absent THEN [present |-> FALSE, empty |-> FALSE, ok |-> FALSE, val |-> ""]
  ELSE [present |-> TRUE, empty |-> (slot[1] = ""),
        ok |-> JSONparseString(slot[1]).ok, val |-> JSONparseString(slot[1]).val]

ReadTiles(slot) ==
  IF slot = Absent THEN [present |-> FALSE, empty |-> FALSE, ok |-> FALSE, val |-> <<>>]
  ELSE [present |-> TRUE, empty |-> FALSE,
        ok |-> JSONparseTiles(slot[1]).ok, val |-> JSONparseTiles(slot[1]).val]

\* The initializer without its try/catch: a text JSON.parse rejects throws.
InitializeWithoutCatch(read, initial) ==
  IF ~read.present \/ read.empty THEN [value |-> initial, error |-> "none"]
  ELSE IF read.ok THEN [value |-> read.val, error |-> "none"]
  ELSE [value |-> initial, error |-> "SyntaxError in usePersistentState"]

\* The useState initializer of usePersistentState:
\*   try { return raw ? JSON.parse(raw) : initial } catch { return initial }
\* The catch turns every exception into `initial`, so no error leaves it.
Initialize(read, initial) ==
  IF ~read.present \/ read.empty THEN [value |-> initial, error |-> "none"]
  ELSE IF read.ok THEN [value |-> read.val, error |-> "none"]
  ELSE [value |-> initial, error |-> "none"]

\* The effect without its try/catch: a failing setItem throws.
ObserveWithoutCatch(slot, text, ok) ==
  IF ok THEN [slot |-> Some(text), error |-> "none"]
        ELSE [slot |-> slot, error |-> "QuotaExceededError in usePersistentState"]

\* The effect of usePersistentState: setItem(key, JSON.stringify(value)) in a
\* try with an empty catch.  `text` is the serialized value, `ok` whether
\* setItem succeeds.
Observe(slot, text, ok) ==
  IF ok THEN [slot |-> Some(text), error |-> "none"]
        ELSE [slot |-> slot, error |-> "none"]

\* ---------------------------------------------------------------- slugify

UpperCase == "ABCDEFGHIJKLMNOPQRSTUVWXYZ"

LowerCase == "abcdefghijklmnopqrstuvwxyz"

Digits == "0123456789"

\* The lower-case letter of every upper-case letter of the ASCII range.
LowerOf ==
  [c \in {Char(UpperCase, i) : i \in 1..Len(UpperCase)} |->
     Char(LowerCase, CHOOSE i \in 1..Len(UpperCase) : Char(UpperCase, i) = c)]

\* toLowerCase of one character of the ASCII range.
ToLowerChar(c) == IF c \in DOMAIN LowerOf THEN LowerOf[c] ELSE c

RECURSIVE ToLowerCase(_)
ToLowerCase(s) ==
  IF s = "" THEN ""
  ELSE ToLowerChar(Char(s, 1)) \o ToLowerCase(SubSeq(s, 2, Len(s)))

IsSlugChar(c) ==
  \/ \E i \in 1..Len(LowerCase) : Char(LowerCase, i) = c
  \/ \E i \in 1..Len(Digits) : Char(Digits, i) = c

\* replace(/[^a-z0-9]+/g, "-"): every maximal run of other characters
\* becomes one dash.  `inRun` tells whether the previous character was one.
RECURSIVE DashRuns(_, _)
DashRuns(s, inRun) ==
  IF s = "" THEN ""
  ELSE IF IsSlugChar(Char(s, 1))
       THEN Char(s, 1) \o DashRuns(SubSeq(s, 2, Len(s)), FALSE)
       ELSE (IF inRun THEN "" ELSE "-") \o DashRuns(SubSeq(s, 2, Len(s)), TRUE)

\* replace(/(^-|-$)+/g, ""): the dash at the start and the dash at the end.
TrimDashes(s) ==
  LET a == IF Len(s) >= 1 /\ Char(s, 1) = "-" THEN SubSeq(s, 2, Len(s)) ELSE s
  IN  IF Len(a) >= 1 /\ Char(a, Len(a)) = "-" THEN SubSeq(a, 1, Len(a) - 1) ELSE a

\* slugify(s) for ASCII text, which normalize("NFKD") and the removal of the
\* combining marks leave as it is.
slugify(s) == TrimDashes(DashRuns(ToLowerCase(s), FALSE))

\* ------------------------------------------------------------------ tiles

DEFAULT_TILES ==
  << [id |-> "calendar", title |-> "Calendar App",
      subtitle |-> <<"Plan & collaborate">>,
      url |-> "https://richardsipos.github.io/Calendar-App/",
      icon |-> "CalendarClock", color |-> "from-indigo-500 to-blue-500",
      tags |-> <<"work", "planning">>],
     [id |-> "dashboard", title |-> "Daily Dashboard",
      subtitle |-> <<"Track your day">>,
      url |-> "https://example.com/dashboard",
      icon |-> "Gauge", color |-> "from-emerald-500 to-teal-500",
      tags |-> <<"habits", "health">>],
     [id |-> "todo", title |-> "Todo HQ",
      subtitle |-> <<"Capture & do">>,
      url |-> "https://richardsipos.github.io/Tick-And-Top",
      icon |-> "CheckSquare", color |-> "from-amber-500 to-orange-500",
      tags |-> <<"tasks">>] >>

\* The fields of the add form other than Title, which the user leaves as
\* useState initialises them.
FormUrl == ""

FormSubtitle == ""

FormIcon == "ListTodo"

FormColor == "from-sky-500 to-cyan-500"

\* tags.split(",").map(trim).filter(Boolean) of the empty Tags field: [""]
\* with the empty string filtered out.
FormTags == <<>>

\* x || fallback for a string x.
OrElse(x, fallback) == IF x = "" THEN fallback ELSE x

\* The tile addTile builds from the form; `suffix` is the random suffix.
NewTile(titleField, suffix) ==
  [id |-> slugify(OrElse(titleField, "tile-")) \o "-" \o suffix,
   title |-> OrElse(titleField, "Untitled"),
   subtitle |-> IF FormSubtitle = "" THEN <<>> ELSE <<FormSubtitle>>,
   url |-> OrElse(FormUrl, "https://example.com"),
   icon |-> FormIcon, color |-> FormColor, tags |-> FormTags]

\* addTile's updater: the new tile goes in front.
addTile(prev, titleField, suffix) == <<NewTile(titleField, suffix)>> \o prev

\* remove's updater: prev.filter((t) => t.id !== id).
remove(prev, id) == SelectSeq(prev, LAMBDA t : t.id # id)

\* move with the direction inverted.
moveOppositeWay(prev, i, dir) ==
  LET j == i - dir
  IN  IF j < 0 \/ j >= Len(prev) THEN prev
      ELSE [prev EXCEPT ![i + 1] = prev[j + 1], ![j + 1] = prev[i + 1]]

\* move's updater for the 0-based index i and dir in {-1, +1}.
move(prev, i, dir) ==
  LET j == i + dir
  IN  IF j < 0 \/ j >= Len(prev) THEN prev
      ELSE [prev EXCEPT ![i + 1] = prev[j + 1], ![j + 1] = prev[i + 1]]

\* The updater of EditTileModal's onSave: prev.map(t => t.id === updated.id ? updated : t).
saveEdit(prev, updated) ==
  [k \in 1..Len(prev) |-> IF prev[k].id = updated.id THEN updated ELSE prev[k]]


\* ----------------------------------------------------------- search filter

\* White space String.prototype.trim removes, as far as it can be typed.
WhiteSpace == {" ", "\t", "\n"}

\* s.trim(): s without its leading and trailing white space.
RECURSIVE trim(_)
trim(s) ==
  IF s = "" THEN ""
  ELSE IF Char(s, 1) \in WhiteSpace THEN trim(SubSeq(s, 2, Len(s)))
  ELSE IF Char(s, Len(s)) \in WhiteSpace THEN trim(SubSeq(s, 1, Len(s) - 1))
  ELSE s

\* s.includes(q): q occurs in s at some 0-based index.
includes(s, q) ==
  \E i \in 0..(Len(s) - Len(q)) : SubSeq(s, i + 1, i + Len(q)) = q

\* [t.title, t.subtitle, ...(t.tags || [])].filter(Boolean): the strings of
\* the tile that are searched; undefined and "" are dropped.
Searched(t) ==
  SelectSeq(<<t.title>> \o t.subtitle \o t.tags, LAMBDA x : x # "")

\* The filter with the tile's strings compared as they are written.
filteredCaseSensitive(ts, qr) ==
  IF trim(qr) = "" THEN ts
  ELSE LET q == ToLowerCase(qr)
       IN  SelectSeq(ts, LAMBDA t :
             \E k \in 1..Len(Searched(t)) : includes(Searched(t)[k], q))

\* The useMemo of `filtered` for the collection ts and the query qr.
filtered(ts, qr) ==
  IF trim(qr) = "" THEN ts
  ELSE LET q == ToLowerCase(qr)
       IN  SelectSeq(ts, LAMBDA t :
             \E k \in 1..Len(Searched(t)) :
               includes(ToLowerCase(Searched(t)[k]), q))

\* ------------------------------------------------------------------ state

VARIABLES
  phase,        \* "stopped": no page loaded; "running": the component is
                \* mounted; "crashed": an uncaught error unmounted the root
  error,        \* the uncaught error that ended the session, or "none"
  slotTheme,    \* localStorage["launcher.theme"]
  slotTiles,    \* localStorage["launcher.tiles"]
  slotSurprise, \* localStorage["launcher.surpriseName"]
  theme,        \* usePersistentState("launcher.theme", "dark")
  tiles,        \* usePersistentState("launcher.tiles", DEFAULT_TILES)
  rootStyle,    \* the six custom properties set on document.documentElement
  written,      \* per bound key: did the latest write of the effect succeed
  query,        \* useState(""): the value of the search field
  helpOpen,     \* useState(false)
  manageOpen,   \* useState(false)
  local,        \* ManageTilesModal: useState(tiles)
  localIsTiles, \* whether `local` is still the very array object `tiles`
  title,        \* ManageTilesModal: the Title field
  editing,      \* useState<Tile | null>(null): <<>> or <<tile>>
  draft         \* EditTileModal: useState({...tile}): <<>> or <<tile>>

storageVars == <<slotTheme, slotTiles, slotSurprise>>

themeVars == <<theme, rootStyle>>

manageVars == <<manageOpen, local, localIsTiles, title>>

editVars == <<editing, draft>>

vars == <<phase, error, slotTheme, slotTiles, slotSurprise, theme, tiles,
          rootStyle, written, query, helpOpen, manageOpen, local, localIsTiles,
          title, editing, draft>>

\* Texts launcher.theme may hold when the page loads: the four theme names as
\* JSON, JSON strings that are no theme name, text that is no JSON, and "".
ThemeTexts ==
  {JSONstringifyString(n) : n \in ThemeName}
    \cup {JSONstringifyString("blue"), JSONstringifyString("constructor"),
          "dark", ""}

\* Texts launcher.surpriseName may hold when the page loads.
SurpriseTexts == {"ocean", "forest", "sunset", "neon", "constructor"}

\* Texts launcher.tiles may hold when the page loads, other than what an
\* earlier session wrote.
TilesTexts == {[syntax |-> "invalid"]}

SlotsOf(texts) == {Absent} \cup {Some(x) : x \in texts}

\* The memory of a page that is not loaded.
NotLoaded ==
  /\ theme = "dark"
  /\ tiles = <<>>
  /\ rootStyle = NoInlineStyle
  /\ written = [theme |-> FALSE, tiles |-> FALSE]
  /\ query = ""
  /\ helpOpen = FALSE
  /\ manageOpen = FALSE
  /\ local = <<>>
  /\ localIsTiles = FALSE
  /\ title = ""
  /\ editing = <<>>
  /\ draft = <<>>

Init ==
  /\ phase = "stopped"
  /\ error = "none"
  /\ slotTheme \in SlotsOf(ThemeTexts)
  /\ slotSurprise \in SlotsOf(SurpriseTexts)
  /\ slotTiles \in SlotsOf(TilesTexts)
  /\ NotLoaded

\* The first error of a commit's effects: React runs every effect of the
\* commit and unmounts the root with the first error one of them threw.
FirstError(errors) ==
  IF \E i \in 1..Len(errors) : errors[i] # "none"
  THEN errors[CHOOSE i \in 1..Len(errors) :
                /\ errors[i] # "none"
                /\ \A k \in 1..(i - 1) : errors[k] = "none"]
  ELSE "none"

PhaseAfter(err) == IF err = "none" THEN "running" ELSE "crashed"

\* ---------------------------------------------------------------- actions

\* The page loads: both useState initializers, the first render, then the
\* effects of the mount: the two store effects and applyTheme(theme).
Start ==
  /\ phase = "stopped"
  /\ \E okT \in BOOLEAN, okTi \in BOOLEAN, okS \in BOOLEAN, rnd \in 0..2 :
       LET it  == Initialize(ReadTheme(slotTheme), "dark")
           iti == Initialize(ReadTiles(slotTiles), DEFAULT_TILES)
           wT  == Observe(slotTheme, JSONstringifyString(it.value), okT)
           wTi == Observe(slotTiles, JSONstringifyTiles(iti.value), okTi)
           a   == applyTheme(it.value, slotSurprise, NoInlineStyle, rnd, okS)
           err == FirstError(<<wT.error, wTi.error, a.error>>)
       IN  IF it.error # "none" \/ iti.error # "none"
           THEN /\ phase' = "crashed"
                /\ error' = FirstError(<<it.error, iti.error>>)
                /\ UNCHANGED <<storageVars, themeVars, tiles, written>>
           ELSE /\ theme' = it.value
                /\ tiles' = iti.value
                /\ slotTheme' = wT.slot
                /\ slotTiles' = wTi.slot
                /\ written' = [theme |-> okT, tiles |-> okTi]
                /\ slotSurprise' = a.slot
                /\ rootStyle' = a.style
                /\ error' = err
                /\ phase' = PhaseAfter(err)
  /\ UNCHANGED <<query, helpOpen, manageVars, editVars>>

\* The tab is closed: the memory is gone, localStorage stays.
Quit ==
  /\ phase \in {"running", "crashed"}
  /\ phase' = "stopped"
  /\ error' = "none"
  /\ theme' = "dark"
  /\ tiles' = <<>>
  /\ rootStyle' = NoInlineStyle
  /\ written' = [theme |-> FALSE, tiles |-> FALSE]
  /\ query' = ""
  /\ helpOpen' = FALSE
  /\ manageOpen' = FALSE
  /\ local' = <<>>
  /\ localIsTiles' = FALSE
  /\ title' = ""
  /\ editing' = <<>>
  /\ draft' = <<>>
  /\ UNCHANGED storageVars

\* setTheme(updater), the re-render, then the effects whose dependencies
\* changed: the store effect of launcher.theme and applyTheme(theme).
setThemeNext ==
  \E okT \in BOOLEAN, okS \in BOOLEAN, rnd \in 0..2 :
    LET th  == NextTheme(theme)
        wT  == Observe(slotTheme, JSONstringifyString(th), okT)
        a   == applyTheme(th, slotSurprise, rootStyle, rnd, okS)
        err == FirstError(<<wT.error, a.error>>)
    IN  /\ theme' = th
        /\ slotTheme' = wT.slot
        /\ written' = [written EXCEPT !.theme = okT]
        /\ slotSurprise' = a.slot
        /\ rootStyle' = a.style
        /\ error' = err
        /\ phase' = PhaseAfter(err)
        /\ UNCHANGED <<slotTiles, tiles>>

\* A theme change with nothing else happening in the same event.
CycleTheme ==
  /\ setThemeNext
  /\ UNCHANGED <<query, helpOpen, manageVars, editVars>>

\* A click on the ThemeToggle button.
ThemeToggleClick ==
  /\ phase = "running"
  /\ CycleTheme

\* The launcher's keydown listener on the window for one key.  It looks at
\* e.key only, never at the element the key was pressed in.  What the key does
\* to the text fields and the modals is left to the action that presses it.
onKey(key) ==
  IF key = "/"
  THEN UNCHANGED <<phase, error, storageVars, themeVars, tiles, written,
                   helpOpen>>
  ELSE IF ToLowerCase(key) = "t"
  THEN setThemeNext /\ UNCHANGED helpOpen
  ELSE IF key = "?"
  THEN /\ helpOpen' = TRUE
       /\ UNCHANGED <<phase, error, storageVars, themeVars, tiles, written>>
  ELSE UNCHANGED <<phase, error, storageVars, themeVars, tiles, written,
                   helpOpen>>

\* Whether the listener called e.preventDefault(), which keeps the key's
\* character out of the focused field.
defaultPrevented(key) == key = "/"

\* Escape: every open Modal calls its onClose.
CloseModals ==
  /\ helpOpen' = FALSE
  /\ manageOpen' = FALSE
  /\ local' = <<>>
  /\ localIsTiles' = FALSE
  /\ title' = ""
  /\ editing' = <<>>
  /\ draft' = <<>>
  /\ UNCHANGED <<phase, error, storageVars, themeVars, tiles, written, query>>

\* A keydown on the window with the focus in no text field: the launcher's
\* onKey and the Modals' onKey.
KeyDown ==
  /\ phase = "running"
  /\ \E key \in Keys :
       IF key = "Escape" THEN CloseModals
       ELSE onKey(key) /\ UNCHANGED <<query, manageVars, editVars>>

\* The text a field holds after the key `ch` was pressed in it: the
\* character is appended unless the default was prevented or the listener's
\* state change unmounted the application.
Typed(text, ch, phaseAfter) ==
  IF defaultPrevented(ch) \/ phaseAfter # "running" THEN text ELSE text \o ch

\* The user presses a character key in the search field: the keydown reaches
\* the window listener, then the input's onChange calls setQuery.
TypeQuery ==
  /\ phase = "running"
  /\ Len(query) < MaxTyped
  /\ \E ch \in TypedKeys :
       /\ onKey(ch)
       /\ query' = Typed(query, ch, phase')
  /\ UNCHANGED <<manageVars, editVars>>

\* onChange of the search field with a whole new value (paste, clear).
SetQuery ==
  /\ phase = "running"
  /\ \E v \in QueryInputs :
       /\ v # query
       /\ query' = v
  /\ UNCHANGED <<phase, error, storageVars, themeVars, tiles, written,
                 helpOpen, manageVars, editVars>>

\* A click on the Help button.
OpenHelp ==
  /\ phase = "running"
  /\ ~helpOpen
  /\ helpOpen' = TRUE
  /\ UNCHANGED <<phase, error, storageVars, themeVars, tiles, written,
                 query, manageVars, editVars>>

\* Close, or a click on the backdrop, of the Help modal.
CloseHelp ==
  /\ phase = "running"
  /\ helpOpen
  /\ helpOpen' = FALSE
  /\ UNCHANGED <<phase, error, storageVars, themeVars, tiles, written,
                 query, manageVars, editVars>>


\* setTiles(next) with a new array, the re-render, then the store effect of
\* launcher.tiles.
CommitTiles(next) ==
  \E okTi \in BOOLEAN :
    LET wTi == Observe(slotTiles, JSONstringifyTiles(next), okTi)
    IN  /\ tiles' = next
        /\ slotTiles' = wTi.slot
        /\ written' = [written EXCEPT !.tiles = okTi]
        /\ error' = wTi.error
        /\ phase' = PhaseAfter(wTi.error)

\* A click on "Manage Tiles": the modal mounts with local = tiles.
OpenManage ==
  /\ phase = "running"
  /\ ~manageOpen
  /\ manageOpen' = TRUE
  /\ local' = tiles
  /\ localIsTiles' = TRUE
  /\ title' = ""
  /\ UNCHANGED <<phase, error, storageVars, themeVars, tiles, written,
                 query, helpOpen, editVars>>

\* The user changes the Title field of the add form.
SetTitle ==
  /\ phase = "running"
  /\ manageOpen
  /\ editing = <<>>
  /\ \E v \in TitleInputs :
       /\ v # title
       /\ title' = v
  /\ UNCHANGED <<phase, error, storageVars, themeVars, tiles, written,
                 query, helpOpen, manageOpen, local, localIsTiles, editVars>>

\* The user presses a character key in the Title field of the add form: the
\* keydown reaches the window listener, then onChange calls setTitle.
TypeTitle ==
  /\ phase = "running"
  /\ manageOpen
  /\ editing = <<>>
  /\ Len(title) < MaxTyped
  /\ \E ch \in TypedKeys :
       /\ onKey(ch)
       /\ title' = Typed(title, ch, phase')
  /\ UNCHANGED <<query, manageOpen, local, localIsTiles, editVars>>

\* A click on "Add tile".
AddTile ==
  /\ phase = "running"
  /\ manageOpen
  /\ editing = <<>>
  /\ Len(local) < MaxTiles
  /\ \E suffix \in Suffixes :
       local' = addTile(local, title, suffix)
  /\ localIsTiles' = FALSE
  /\ title' = ""
  /\ UNCHANGED <<phase, error, storageVars, themeVars, tiles, written,
                 query, helpOpen, manageOpen, editVars>>

\* A click on the Delete button of the row at the 0-based index i.
Remove ==
  /\ phase = "running"
  /\ manageOpen
  /\ editing = <<>>
  /\ \E i \in 0..(Len(local) - 1) :
       local' = remove(local, local[i + 1].id)
  /\ localIsTiles' = FALSE
  /\ UNCHANGED <<phase, error, storageVars, themeVars, tiles, written,
                 query, helpOpen, manageOpen, title, editVars>>

\* A click on the Move up (dir = -1) or Move down (dir = +1) button of the
\* row at the 0-based index i.  At a boundary the updater returns prev itself.
MoveAt(i, dir) ==
  /\ phase = "running"
  /\ manageOpen
  /\ editing = <<>>
  /\ i \in 0..(Len(local) - 1)
  /\ local' = move(local, i, dir)
  /\ localIsTiles' = (localIsTiles /\ (i + dir < 0 \/ i + dir >= Len(local)))
  /\ UNCHANGED <<phase, error, storageVars, themeVars, tiles, written,
                 query, helpOpen, manageOpen, title, editVars>>

Move == \E i \in 0..(MaxTiles - 1), dir \in {-1, 1} : MoveAt(i, dir)

\* A click on the Edit button of the row at the 0-based index i: onEdit(t)
\* sets `editing`, and EditTileModal mounts with draft = {...tile}.
OnEdit ==
  /\ phase = "running"
  /\ manageOpen
  /\ editing = <<>>
  /\ \E i \in 0..(Len(local) - 1) :
       /\ editing' = <<local[i + 1]>>
       /\ draft' = <<local[i + 1]>>
  /\ UNCHANGED <<phase, error, storageVars, themeVars, tiles, written,
                 query, helpOpen, manageVars>>

\* The user changes the Title field of the Edit modal.
EditTitle ==
  /\ phase = "running"
  /\ editing # <<>>
  /\ \E v \in EditInputs :
       /\ v # draft[1].title
       /\ draft' = <<[draft[1] EXCEPT !.title = v]>>
  /\ UNCHANGED <<phase, error, storageVars, themeVars, tiles, written,
                 query, helpOpen, manageVars, editing>>

\* Save of the Edit modal: the tile of the draft's id is replaced in `tiles`
\* and the modal closes.  The Manage modal keeps its own `local`.
EditSave ==
  /\ phase = "running"
  /\ editing # <<>>
  /\ CommitTiles(saveEdit(tiles, draft[1]))
  /\ editing' = <<>>
  /\ draft' = <<>>
  /\ localIsTiles' = FALSE
  /\ UNCHANGED <<slotTheme, slotSurprise, themeVars, query, helpOpen, manageOpen,
                 local, title>>

\* Cancel, Close, or a click on the backdrop, of the Edit modal.
EditCancel ==
  /\ phase = "running"
  /\ editing # <<>>
  /\ editing' = <<>>
  /\ draft' = <<>>
  /\ UNCHANGED <<phase, error, storageVars, themeVars, tiles, written,
                 query, helpOpen, manageVars>>

\* "Save changes" of the Manage modal: onSave(local), then onClose().  When
\* `local` is still the array `tiles`, setTiles bails out: no render, no write.
SaveChanges ==
  /\ phase = "running"
  /\ manageOpen
  /\ editing = <<>>
  /\ IF localIsTiles
     THEN UNCHANGED <<phase, error, slotTiles, tiles, written>>
     ELSE CommitTiles(local)
  /\ manageOpen' = FALSE
  /\ local' = <<>>
  /\ localIsTiles' = FALSE
  /\ title' = ""
  /\ UNCHANGED <<slotTheme, slotSurprise, themeVars, query, helpOpen, editVars>>

\* Cancel, Close, or a click on the backdrop, of the Manage modal.
CloseManage ==
  /\ phase = "running"
  /\ manageOpen
  /\ editing = <<>>
  /\ manageOpen' = FALSE
  /\ local' = <<>>
  /\ localIsTiles' = FALSE
  /\ title' = ""
  /\ UNCHANGED <<phase, error, storageVars, themeVars, tiles, written,
                 query, helpOpen, editVars>>

\* ---------------------------------------------------------- specifications

Next ==
  \/ Start
  \/ Quit
  \/ ThemeToggleClick
  \/ KeyDown
  \/ TypeQuery
  \/ SetQuery
  \/ OpenHelp
  \/ CloseHelp
  \/ OpenManage
  \/ SetTitle
  \/ TypeTitle
  \/ AddTile
  \/ Remove
  \/ Move
  \/ OnEdit
  \/ EditTitle
  \/ EditSave
  \/ EditCancel
  \/ SaveChanges
  \/ CloseManage

Spec == Init /\ [][Next]_vars

\* The theme handlers read and write no tile state and the tile handlers no
\* theme state, so each part is also explored on its own, with the other
\* part's user actions left out.

\* Theme resolver: every text the three slots may hold at load, the theme
\* cycle by button and by hotkey, the modals the hotkeys open and close.
ThemeStep ==
  \/ Start
  \/ Quit
  \/ ThemeToggleClick
  \/ KeyDown
  \/ OpenHelp
  \/ CloseHelp

ThemeSpec == Init /\ [][ThemeStep]_vars

\* Persistent store: both bound keys change (the theme by the button, the
\* tiles by "Add tile" and "Save changes") and the page is loaded again.
\* The sticky palette is already chosen; launcher.theme and launcher.tiles
\* start absent or corrupt.
StoreInit ==
  /\ Init
  /\ slotTheme \in {Absent, Some("dark"), Some(JSONstringifyString("grafit"))}
  /\ slotSurprise = Some("ocean")

StoreStep ==
  \/ Start
  \/ Quit
  \/ ThemeToggleClick
  \/ OpenManage
  \/ SetTitle
  \/ AddTile
  \/ SaveChanges
  \/ CloseManage

StoreSpec == StoreInit /\ [][StoreStep]_vars

\* Manage modal: a fresh installation (empty localStorage) and every
\* operation of the modal on its own list, up to Cancel.
ManageInit ==
  /\ Init
  /\ slotTheme = Absent
  /\ slotSurprise = Absent
  /\ slotTiles = Absent

ManageStep ==
  \/ Start
  \/ OpenManage
  \/ AddTile
  \/ Remove
  \/ Move
  \/ CloseManage

ManageSpec == ManageInit /\ [][ManageStep]_vars

\* Search: a fresh installation, the search field given each of its values,
\* and the collection growing by tiles added and saved in the Manage modal.
SearchInit ==
  /\ Init
  /\ slotTheme = Absent
  /\ slotSurprise = Absent
  /\ slotTiles = Absent

SearchStep ==
  \/ Start
  \/ SetQuery
  \/ OpenManage
  \/ SetTitle
  \/ AddTile
  \/ SaveChanges
  \/ CloseManage

SearchSpec == SearchInit /\ [][SearchStep]_vars

\* Edit modal: a fresh installation, tiles added and saved in the Manage
\* modal, and rows of the Manage modal edited, saved or cancelled in the
\* Edit modal while the Manage modal stays open underneath.
EditInit ==
  /\ Init
  /\ slotTheme = Absent
  /\ slotSurprise = Absent
  /\ slotTiles = Absent

EditStep ==
  \/ Start
  \/ OpenManage
  \/ AddTile
  \/ OnEdit
  \/ EditTitle
  \/ EditSave
  \/ EditCancel
  \/ SaveChanges
  \/ CloseManage

EditSpec == EditInit /\ [][EditStep]_vars

\* Typing: a fresh installation, character keys pressed in the search field
\* and in the Title field of the Manage modal, and the modals these keys and
\* the buttons open and close.
TypingInit ==
  /\ Init
  /\ slotTheme = Absent
  /\ slotSurprise = Absent
  /\ slotTiles = Absent

TypingStep ==
  \/ Start
  \/ Quit
  \/ TypeQuery
  \/ CloseHelp
  \/ OpenManage
  \/ TypeTitle
  \/ CloseManage

TypingSpec == TypingInit /\ [][TypingStep]_vars

\* ------------------------------------------------------------ properties

\* The cycle light -> dark -> grafit -> surprise -> light.
CycleSuccessor ==
  [light |-> "dark", dark |-> "grafit", grafit |-> "surprise",
   surprise |-> "light"]

\* A step of a loaded page that is a theme-toggle intent: the click on the
\* ThemeToggle button or the T hotkey.
ToggleIntent ==
  /\ phase = "running"
  /\ CycleTheme

\* A step in which applyTheme("surprise") runs: the page loads with the
\* surprise theme selected, or the selection changes to it.
ResolvesSurprise ==
  /\ phase' # "stopped"
  /\ theme' = "surprise"
  /\ phase = "stopped" \/ (phase = "running" /\ theme # "surprise")

\* The launcher.surpriseName slot names a palette of the fixed set.
NamesPalette(slot) ==
  slot \in {Some(PaletteNames[i]) : i \in 1..Len(PaletteNames)}

\* C1: every theme-toggle intent (button or T hotkey) taken from one of the
\* four theme states moves the selection to its successor on the cycle
\* light -> dark -> grafit -> surprise -> light, and within a session the
\* selection makes no other move between theme states.
C1_ThemeCycle ==
  [][ /\ (ToggleIntent /\ theme \in ThemeName)
          => theme' = CycleSuccessor[theme]
      /\ (phase = "running" /\ phase' # "stopped" /\ theme \in ThemeName
            /\ theme' # theme)
          => theme' = CycleSuccessor[theme] ]_vars

\* C1 witness: the selection is light while launcher.theme still says
\* surprise: the wrap-around step was taken (and its write failed).
C1_Witness ==
  /\ phase = "running"
  /\ theme = "light"
  /\ slotTheme = Some(JSONstringifyString("surprise"))
  /\ rootStyle = THEMES.light

\* C2: once launcher.surpriseName names a palette of the fixed set, every
\* step leaves the slot as it is, and every step that resolves the surprise
\* theme applies the tokens of that palette.
C2_StickySurprise ==
  [][ NamesPalette(slotSurprise)
        => /\ slotSurprise' = slotSurprise
           /\ ResolvesSurprise
                => rootStyle' = SURPRISE_PALETTES[slotSurprise[1]] ]_vars

\* C3: whenever the surprise theme is the resolved selection of a loaded
\* page, launcher.surpriseName names a palette of the fixed set and the
\* applied tokens are those of the palette it names.
C3_StickyNamesPalette ==
  (phase = "running" /\ theme = "surprise")
    => /\ NamesPalette(slotSurprise)
       /\ rootStyle = SURPRISE_PALETTES[slotSurprise[1]]

\* What a load of the page would give each bound key, read from the slots as
\* they are now.
ReloadedTheme == Initialize(ReadTheme(slotTheme), "dark").value

ReloadedTiles == Initialize(ReadTiles(slotTiles), DEFAULT_TILES).value

\* C4: while the page runs, a bound key whose latest write succeeded has the
\* serialization of the in-memory value in its slot, and loading the page
\* again would give that value back (not the default).
C4_RoundTrip ==
  phase = "running"
    => /\ written.theme
           => /\ slotTheme = Some(JSONstringifyString(theme))
              /\ ReloadedTheme = theme
       /\ written.tiles
           => /\ slotTiles = Some(JSONstringifyTiles(tiles))
              /\ ReloadedTiles = tiles

\* C4 witness: both keys hold values other than their defaults, the tiles
\* with an added tile whose subtitle is undefined, and both are in the slots.
C4_Witness ==
  /\ phase = "running"
  /\ written.theme /\ written.tiles
  /\ theme = "light"
  /\ Len(tiles) = 4
  /\ tiles[1].subtitle = <<>>
  /\ "subtitle" \notin DOMAIN slotTiles[1].items[1]
  /\ ReloadedTheme = "light"
  /\ ReloadedTiles = tiles

\* The slot is absent or holds text JSON.parse rejects.
UnreadableTheme == slotTheme = Absent \/ ~JSONparseString(slotTheme[1]).ok

UnreadableTiles == slotTiles = Absent \/ ~JSONparseTiles(slotTiles[1]).ok

\* C5: a load of the page with a bound key's slot absent or undeserializable
\* gives that key its default and raises no error: with launcher.theme
\* unreadable the theme is "dark" and the page runs; with launcher.tiles
\* unreadable the tiles are DEFAULT_TILES.
C5_CorruptSlotGivesDefault ==
  [][ (phase = "stopped" /\ phase' # "stopped")
        => /\ UnreadableTheme
               => theme' = "dark" /\ phase' = "running" /\ error' = "none"
           /\ UnreadableTiles
               => tiles' = DEFAULT_TILES
                  /\ error' # "SyntaxError in usePersistentState" ]_vars

\* C5 witness: the page runs with the defaults while both slots still hold
\* the corrupt text (the writes of the mount failed).
C5_Witness ==
  /\ phase = "running"
  /\ slotTheme = Some("dark")
  /\ slotTiles = Some([syntax |-> "invalid"])
  /\ theme = "dark"
  /\ tiles = DEFAULT_TILES
  /\ rootStyle = THEMES.dark

\* C6: whatever launcher.theme holds when the page loads, the in-memory
\* theme is one of light, dark, grafit, surprise, and applying it raises no
\* error.
C6_ThemeIsAThemeName ==
  phase # "stopped"
    => /\ theme \in ThemeName
       /\ error # "TypeError in applyTheme"

\* C7: a failing write of launcher.surpriseName raises no error out of
\* applyTheme, and the tokens of the chosen palette are applied.
C7_StickyWriteFailureSwallowed ==
  phase # "stopped"
    => /\ error # "QuotaExceededError in applyTheme"
       /\ (theme = "surprise" /\ NamesPalette(slotSurprise))
            => rootStyle = SURPRISE_PALETTES[slotSurprise[1]]

\* C8: when the write of a bound key fails, the slot keeps its previous
\* content, no error leaves the store effect, and the in-memory value is the
\* new one: the toggle still moves the theme along the cycle and "Save
\* changes" still sets the tiles; nothing else changes either value.
C8_WriteFailureSwallowed ==
  [][ (phase = "running" /\ phase' # "stopped")
        => /\ ~written'.theme => slotTheme' = slotTheme
           /\ ~written'.tiles => slotTiles' = slotTiles
           /\ error' # "QuotaExceededError in usePersistentState"
           /\ (ToggleIntent /\ theme \in ThemeName)
                => theme' = CycleSuccessor[theme]
           /\ (SaveChanges /\ ~localIsTiles) => tiles' = local
           /\ theme' # theme => ToggleIntent
           /\ tiles' # tiles => (SaveChanges \/ EditSave) ]_vars

\* C8 witness: the tiles in memory hold an added tile and the theme has
\* moved on, while both slots still hold what the mount wrote.
C8_Witness ==
  /\ phase = "running"
  /\ ~written.theme /\ ~written.tiles
  /\ slotTheme = Some(JSONstringifyString("dark"))
  /\ theme = "light"
  /\ slotTiles = Some(JSONstringifyTiles(DEFAULT_TILES))
  /\ Len(tiles) = 5

\* No two positions of the list hold the same id.
UniqueIds(ts) ==
  \A i \in 1..Len(ts), j \in 1..Len(ts) : i # j => ts[i].id # ts[j].id

\* C9: tile ids are unique within the tile collection in every reachable
\* state.
C9_UniqueIds == UniqueIds(tiles)

\* The number of positions of the list that hold x.
Occurrences(ts, x) == Cardinality({k \in 1..Len(ts) : ts[k] = x})

IsPermutation(a, b) ==
  /\ Len(a) = Len(b)
  /\ \A k \in 1..Len(a) : Occurrences(a, a[k]) = Occurrences(b, a[k])

\* What the claim says of the list `after` a move of the 0-based index i by
\* dir on the list `before`.
Swapped(before, after, i, dir) ==
  LET j == i + dir
  IN  IF j >= 0 /\ j < Len(before)
      THEN /\ Len(after) = Len(before)
           /\ after[i + 1] = before[j + 1]
           /\ after[j + 1] = before[i + 1]
           /\ \A k \in 1..Len(before) :
                (k # i + 1 /\ k # j + 1) => after[k] = before[k]
      ELSE after = before

\* C10: move(i, dir) with dir in {-1, +1} swaps the tiles at positions i and
\* i + dir and leaves every other position as it is when i + dir is inside
\* the list, and leaves the list as it is otherwise; the result is always a
\* permutation of the list before.
C10_MoveSwaps ==
  [][ \A i \in 0..(MaxTiles - 1), dir \in {-1, 1} :
        MoveAt(i, dir)
          => /\ Swapped(local, local', i, dir)
             /\ IsPermutation(local, local') ]_vars

\* C10 witness: the first default tile was moved down one position (or the
\* second up).
C10_Witness ==
  /\ manageOpen
  /\ Len(local) = 3
  /\ local[1] = DEFAULT_TILES[2]
  /\ local[2] = DEFAULT_TILES[1]
  /\ local[3] = DEFAULT_TILES[3]


\* The query has no character other than white space.
IsBlank(qr) == \A k \in 1..Len(qr) : Char(qr, k) \in WhiteSpace

\* qr occurs in s at some position, letter case apart.
OccursIgnoringCase(s, qr) ==
  \E i \in 1..(Len(s) - Len(qr) + 1) :
    \A k \in 1..Len(qr) :
      ToLowerChar(Char(s, i + k - 1)) = ToLowerChar(Char(qr, k))

\* The tile's title, subtitle or some tag holds the query.
TileMatches(t, qr) ==
  \/ OccursIgnoringCase(t.title, qr)
  \/ \E k \in 1..Len(t.subtitle) : OccursIgnoringCase(t.subtitle[k], qr)
  \/ \E k \in 1..Len(t.tags) : OccursIgnoringCase(t.tags[k], qr)

\* res lists, in the order of ts, exactly the tiles of ts that match qr: its
\* j-th tile is the matching tile of ts with j - 1 matching tiles before it.
IsMatchingSubsequence(res, ts, qr) ==
  LET hits == {k \in 1..Len(ts) : TileMatches(ts[k], qr)}
  IN  /\ Len(res) = Cardinality(hits)
      /\ \A k \in hits :
           res[Cardinality({m \in hits : m < k}) + 1] = ts[k]

\* C11: whenever the application is loaded, or the query or the collection
\* changes, the search result for a blank query is the whole collection in
\* its order, and for any other query it is the order-preserving subsequence
\* of the tiles whose title, subtitle or some tag holds the query
\* case-insensitively; a change of the query changes neither the collection
\* nor the launcher.tiles slot.
C11_SearchFilter ==
  [][ /\ (/\ phase' = "running"
          /\ (phase # "running" \/ query' # query \/ tiles' # tiles)) =>
           IF IsBlank(query')
           THEN filtered(tiles', query') = tiles'
           ELSE IsMatchingSubsequence(filtered(tiles', query'), tiles', query')
      /\ (phase = "running" /\ phase' = "running" /\ query' # query) =>
           (tiles' = tiles /\ slotTiles' = slotTiles) ]_vars

\* The query "do" picks the added tile "To Do" at the front and "Todo HQ" at
\* the end, skipping the two tiles between them.
C11_Witness ==
  /\ phase = "running"
  /\ query = "do"
  /\ Len(tiles) = 4
  /\ tiles[1].title = "To Do"
  /\ filtered(tiles, query) = <<tiles[1], tiles[4]>>


\* The positions of the collection whose tile differs after the step.
ChangedPositions(before, after) ==
  {k \in 1..Len(before) : k > Len(after) \/ after[k] # before[k]}

\* C12: a Save of the Edit modal keeps the id of the edited tile, the length
\* of the collection and the id at every position, changes no tile of another
\* id and changes at most one tile; typing in the Edit modal keeps the
\* draft's id; a Cancel changes neither the collection nor launcher.tiles.
C12_EditKeepsIdAndOthers ==
  [][ /\ EditSave =>
           /\ draft[1].id = editing[1].id
           /\ Len(tiles') = Len(tiles)
           /\ \A k \in 1..Len(tiles) :
                /\ tiles'[k].id = tiles[k].id
                /\ tiles[k].id # editing[1].id => tiles'[k] = tiles[k]
                /\ tiles[k].id = editing[1].id => tiles'[k] = draft[1]
           /\ Cardinality(ChangedPositions(tiles, tiles')) <= 1
      /\ EditTitle => draft'[1].id = draft[1].id
      /\ EditCancel => (tiles' = tiles /\ slotTiles' = slotTiles) ]_vars

\* C13: "Save changes" of the Manage modal keeps, with all its fields, every
\* tile of the collection whose id is still listed in the modal; the
\* collection and the modal's list differ for such an id only by an edit
\* saved through the Edit modal since the Manage modal was opened.
C13_NoLostUpdate ==
  [][ SaveChanges =>
        \A k \in 1..Len(tiles) :
          (\E m \in 1..Len(local) : local[m].id = tiles[k].id) =>
            (\E n \in 1..Len(tiles') : tiles'[n] = tiles[k]) ]_vars


\* C14: a character typed into the search field or into the Title field of
\* the Manage modal changes neither the theme selection, nor the
\* launcher.theme slot, nor the colour tokens applied to the document.
C14_TypingKeepsTheme ==
  [][ (TypeQuery \/ TypeTitle) =>
        (theme' = theme /\ slotTheme' = slotTheme /\ rootStyle' = rootStyle) ]_vars

=============================================================================
